---- MODULE Spec2Model ----
(***************************************************************************)
(* Model of app.py, the telemetry dashboard script.  The script is one    *)
(* top-to-bottom run over a per-minute residency series `ts`: z-score     *)
(* anomalies, Isolation Forest anomalies, their overlap, the FFT period,  *)
(* the hour-of-day peak and trough, the Aroon indicator and its upward    *)
(* crossovers, then the metric widgets.  An uncaught exception in any     *)
(* statement ends the run at that statement.                              *)
(*                                                                         *)
(* Python indices are 0-based and TLA+ sequences 1-based: the Python      *)
(* element s[i] is At(s, i) here.  A float is a record: either NaN, or    *)
(* an infinity, or the exact fraction num/den (den > 0).                  *)
(*                                                                         *)
(* compute_aroon takes its window as a parameter; the script passes 1440. *)
(* The model runs the same code over windows 1..MaxWindow so that series  *)
(* shorter than, equal to and longer than the window are all explored.    *)
(***************************************************************************)
EXTENDS Integers, Sequences, FiniteSets, TLC

VARIABLES ts, start, window, pc,
          z, out_z, out_ml, overlap,
          idx, period_minutes, period_hours,
          peak_hour, trough_hour,
          a_up, a_down, cross_up,
          report

vars == << ts, start, window, pc, z, out_z, out_ml, overlap, idx,
           period_minutes, period_hours, peak_hour, trough_hour,
           a_up, a_down, cross_up, report >>

\* ---------------------------------------------------------------- bounds
MaxLen == 4
MaxVal == 2
MaxWindow == 3
SpikeLen == 11

\* ------------------------------------------------------ program constants
ZThreshold == 3
Percent == 100
MinutesPerHour == 60
HoursPerDay == 24

\* ----------------------------------------------------------------- floats
NaN == [nan |-> TRUE, inf |-> FALSE, num |-> 0, den |-> 1]
Inf == [nan |-> FALSE, inf |-> TRUE, num |-> 1, den |-> 1]
Frac(n, d) == [nan |-> FALSE, inf |-> FALSE, num |-> n, den |-> d]

\* IEEE division of the exact fractions a / b, b >= 0, a finite or NaN
FloatDiv(a, b) ==
    IF a.nan \/ b.nan THEN NaN
    ELSE IF b.num = 0 THEN (IF a.num = 0 THEN NaN ELSE Inf)
    ELSE Frac(a.num * b.den, a.den * b.num)

\* a > b and a <= b on floats with positive denominators; any comparison
\* with NaN is False
FloatGt(a, b) == ~a.nan /\ ~b.nan /\ a.num * b.den > b.num * a.den
FloatLe(a, b) == ~a.nan /\ ~b.nan /\ a.num * b.den <= b.num * a.den

\* --------------------------------------------------------------- helpers
At(s, i) == s[i + 1]
Indices(s) == 0 .. (Len(s) - 1)

RECURSIVE Sum(_)
Sum(s) == IF s = << >> THEN 0 ELSE Head(s) + Sum(Tail(s))

\* Series.sum() of a boolean series: True counts 1
RECURSIVE CountTrue(_)
CountTrue(s) ==
    IF s = << >> THEN 0 ELSE (IF Head(s) THEN 1 ELSE 0) + CountTrue(Tail(s))

\* elementwise & of two aligned boolean series
AndMutantOr(a, b) == [i \in 1..Len(a) |-> a[i] \/ b[i]]
And(a, b) == [i \in 1..Len(a) |-> a[i] /\ b[i]]

SetMax(S) == CHOOSE m \in S : \A x \in S : x <= m
SetMin(S) == CHOOSE m \in S : \A x \in S : m <= x

\* ndarray.argmax() / argmin(): 0-based position of the FIRST extreme
ArgMaxLast(w) == SetMax({p \in Indices(w) : \A q \in Indices(w) : At(w, q) <= At(w, p)})
ArgMax(w) == SetMin({p \in Indices(w) : \A q \in Indices(w) : At(w, q) <= At(w, p)})
ArgMinLast(w) == SetMax({p \in Indices(w) : \A q \in Indices(w) : At(w, p) <= At(w, q)})
ArgMin(w) == SetMin({p \in Indices(w) : \A q \in Indices(w) : At(w, p) <= At(w, q)})

\* vals[lo : hi] for 0 <= lo <= hi <= len(vals)
Slice(vals, lo, hi) == [k \in 1..(hi - lo) |-> vals[lo + k]]

\* ----------------------------------------------------------- compute_aroon
AroonRange(n, w) == w .. (n - 1)
AroonRangeFromFullWindow(n, w) == (w - 1) .. (n - 1)

AroonValueUnbounded(w, p) == Frac(Percent * (w + 1 - p), w)
AroonValue(w, p) == Frac(Percent * (w - 1 - p), w)

AroonUp(vals, w) ==
    [k \in 1..Len(vals) |->
        IF (k - 1) \in AroonRange(Len(vals), w)
        THEN AroonValue(w, ArgMax(Slice(vals, k - w, k)))
        ELSE NaN]

AroonDown(vals, w) ==
    [k \in 1..Len(vals) |->
        IF (k - 1) \in AroonRange(Len(vals), w)
        THEN AroonValue(w, ArgMin(Slice(vals, k - w, k)))
        ELSE NaN]

\* Series.shift(1): the first entry becomes NaN, the last one is dropped
Shift1(s) == [k \in 1..Len(s) |-> IF k = 1 THEN NaN ELSE s[k - 1]]

\* (a_up > a_down) & (a_up.shift(1) <= a_down.shift(1))
CrossUpFlagsNegated(up, down) ==
    And([k \in 1..Len(up) |-> ~FloatLe(up[k], down[k])],
        [k \in 1..Len(up) |-> ~FloatGt(Shift1(up)[k], Shift1(down)[k])])
CrossUpFlags(up, down) ==
    And([k \in 1..Len(up) |-> FloatGt(up[k], down[k])],
        [k \in 1..Len(up) |-> FloatLe(Shift1(up)[k], Shift1(down)[k])])

\* ------------------------------------------------------ z-score anomalies
\* n * (ts[k] - ts.mean()), an integer
Dev(s, k) == Len(s) * s[k] - Sum(s)

\* ts - ts.mean()
Demeaned(s) == [k \in 1..Len(s) |-> Frac(Dev(s, k), Len(s))]

RECURSIVE SumSqDevUpTo(_, _)
SumSqDevUpTo(s, k) ==
    IF k = 0 THEN 0 ELSE Dev(s, k) * Dev(s, k) + SumSqDevUpTo(s, k - 1)

\* ts.var() with ddof = 1: sum((x - mean)^2) / (n - 1); 0/0 for n = 1
Variance(s) ==
    FloatDiv(Frac(SumSqDevUpTo(s, Len(s)), Len(s) * Len(s)), Frac(Len(s) - 1, 1))

\* the square of (x - mean) / std, which keeps |z| exact: std = sqrt(var)
ZSquared(s, k) ==
    FloatDiv(Frac(Dev(s, k) * Dev(s, k), Len(s) * Len(s)), Variance(s))

ZScores(s) == [k \in 1..Len(s) |-> ZSquared(s, k)]

\* z.abs() > 3, on the squared score
AbsGtNanTrue(zsq, t) == zsq.nan \/ zsq.inf \/ zsq.num > t * t * zsq.den
AbsGt(zsq, t) == ~zsq.nan /\ (zsq.inf \/ zsq.num > t * t * zsq.den)

\* ------------------------------------------------------- isolation forest
\* fit_predict labels a row by its feature value alone, so equal samples
\* get equal labels; which values fall under the fitted threshold is the
\* library's choice
ValuesOf(s) == {s[k] : k \in 1..Len(s)}
IForestFlags(s, outliers) == [k \in 1..Len(s) |-> s[k] \in outliers]

\* ------------------------------------------------------------------- FFT
\* number of entries of fft_vals[1:], rfft returning n // 2 + 1 bins
NonDCBins(s) == Len(s) \div 2
IsConstant(s) == \A j, k \in 1..Len(s) : s[j] = s[k]

\* bins np.argmax(np.abs(fft_vals[1:])) + 1 can return: the transform of an
\* all-zero demeaned series is all zero and argmax takes the first bin;
\* otherwise the floating-point magnitudes decide among the non-DC bins
DominantBins(s) ==
    IF \A k \in 1..Len(s) : Demeaned(s)[k].num = 0
    THEN {1}
    ELSE 1 .. NonDCBins(s)

\* freqs[k] of np.fft.rfftfreq(n, d=1)
RfftFreq(n, k) == Frac(k, n)

\* -------------------------------------------------------- hourly profile
HourOf(k) == ((start + k) \div MinutesPerHour) % HoursPerDay
Hours(s) == {HourOf(k) : k \in Indices(s)}
HourSum(s, h) == Sum([k \in 1..Len(s) |-> IF HourOf(k - 1) = h THEN s[k] ELSE 0])
HourCount(s, h) == Cardinality({k \in Indices(s) : HourOf(k) = h})
HourMean(s, h) == Frac(HourSum(s, h), HourCount(s, h))
\* idxmax / idxmin over the groups sorted by hour: the first extreme label
IdxMax(s) == SetMin({h \in Hours(s) : \A g \in Hours(s) : FloatLe(HourMean(s, g), HourMean(s, h))})
IdxMin(s) == SetMin({h \in Hours(s) : \A g \in Hours(s) : FloatLe(HourMean(s, h), HourMean(s, g))})

\* ---------------------------------------------------------------- inputs
RECURSIVE SeqsOfLen(_)
SeqsOfLen(n) ==
    IF n = 0 THEN {<< >>}
    ELSE {Append(s, v) : s \in SeqsOfLen(n - 1), v \in 0..MaxVal}

ShortSeries == UNION {SeqsOfLen(n) : n \in 1..MaxLen}
SpikeSeries ==
    {[k \in 1..SpikeLen |-> IF k = p THEN v ELSE b] :
        p \in 1..SpikeLen, v \in 0..MaxVal, b \in 0..MaxVal}
SeriesInputs == ShortSeries \cup SpikeSeries
StartMinutes == {0, MinutesPerHour * HoursPerDay - 1}

NoReport == [f \in {} |-> NaN]

Init ==
    /\ ts \in SeriesInputs
    /\ start \in StartMinutes
    /\ window \in 1..MaxWindow
    /\ pc = "zscore"
    /\ z = << >>
    /\ out_z = << >>
    /\ out_ml = << >>
    /\ overlap = 0
    /\ idx = 0
    /\ period_minutes = NaN
    /\ period_hours = NaN
    /\ peak_hour = 0
    /\ trough_hour = 0
    /\ a_up = << >>
    /\ a_down = << >>
    /\ cross_up = 0
    /\ report = NoReport

\* --------------------------------------------------------------- actions
ZScoreStep ==
    /\ pc = "zscore"
    /\ z' = ZScores(ts)
    /\ out_z' = [k \in 1..Len(ts) |-> AbsGt(ZScores(ts)[k], ZThreshold)]
    /\ pc' = "iforest"
    /\ UNCHANGED << ts, start, window, out_ml, overlap, idx, period_minutes,
                    period_hours, peak_hour, trough_hour, a_up, a_down,
                    cross_up, report >>

IsolationForestStep ==
    /\ pc = "iforest"
    /\ \E outliers \in SUBSET ValuesOf(ts) :
          out_ml' = IForestFlags(ts, outliers)
    /\ pc' = "overlap"
    /\ UNCHANGED << ts, start, window, z, out_z, overlap, idx, period_minutes,
                    period_hours, peak_hour, trough_hour, a_up, a_down,
                    cross_up, report >>

OverlapStep ==
    /\ pc = "overlap"
    /\ overlap' = CountTrue(And(out_z, out_ml))
    /\ pc' = "fft"
    /\ UNCHANGED << ts, start, window, z, out_z, out_ml, idx, period_minutes,
                    period_hours, peak_hour, trough_hour, a_up, a_down,
                    cross_up, report >>

FFTStep ==
    /\ pc = "fft"
    /\ NonDCBins(ts) > 0
    /\ \E bin \in DominantBins(ts) :
          /\ idx' = bin
          /\ period_minutes' = FloatDiv(Frac(1, 1), RfftFreq(Len(ts), bin))
          /\ period_hours' =
                FloatDiv(FloatDiv(Frac(1, 1), RfftFreq(Len(ts), bin)),
                         Frac(MinutesPerHour, 1))
    /\ pc' = "hourly"
    /\ UNCHANGED << ts, start, window, z, out_z, out_ml, overlap, peak_hour,
                    trough_hour, a_up, a_down, cross_up, report >>

\* np.argmax of the empty fft_vals[1:] raises ValueError; nothing catches it
FFTRaise ==
    /\ pc = "fft"
    /\ NonDCBins(ts) = 0
    /\ pc' = "failed"
    /\ UNCHANGED << ts, start, window, z, out_z, out_ml, overlap, idx,
                    period_minutes, period_hours, peak_hour, trough_hour,
                    a_up, a_down, cross_up, report >>

HourlyStep ==
    /\ pc = "hourly"
    /\ peak_hour' = IdxMax(ts)
    /\ trough_hour' = IdxMin(ts)
    /\ pc' = "aroon"
    /\ UNCHANGED << ts, start, window, z, out_z, out_ml, overlap, idx,
                    period_minutes, period_hours, a_up, a_down, cross_up,
                    report >>

AroonStep ==
    /\ pc = "aroon"
    /\ a_up' = AroonUp(ts, window)
    /\ a_down' = AroonDown(ts, window)
    /\ cross_up' = CountTrue(CrossUpFlags(AroonUp(ts, window), AroonDown(ts, window)))
    /\ pc' = "hero"
    /\ UNCHANGED << ts, start, window, z, out_z, out_ml, overlap, idx,
                    period_minutes, period_hours, peak_hour, trough_hour,
                    report >>

HeroFields ==
    {"Z-score Anomalies", "ML Anomalies", "Shared Anomalies", "Daily Cycle (hrs)"}

HeroMetrics ==
    /\ pc = "hero"
    /\ report' = [f \in HeroFields |->
          CASE f = "Z-score Anomalies" -> Frac(CountTrue(out_z), 1)
            [] f = "ML Anomalies" -> Frac(CountTrue(out_ml), 1)
            [] f = "Shared Anomalies" -> Frac(overlap, 1)
            [] f = "Daily Cycle (hrs)" -> period_hours]
    /\ pc' = "sidebar"
    /\ UNCHANGED << ts, start, window, z, out_z, out_ml, overlap, idx,
                    period_minutes, period_hours, peak_hour, trough_hour,
                    a_up, a_down, cross_up >>

SidebarFields ==
    {"Mean Residency", "Peak Time", "Trough Time", "Anomaly Rate (Z-score)",
     "Anomaly Rate (ML)", "Trend Reversals/day"}

SidebarHighlights ==
    /\ pc = "sidebar"
    /\ report' = report @@ [f \in SidebarFields |->
          CASE f = "Mean Residency" -> Frac(Sum(ts), Len(ts))
            [] f = "Peak Time" -> Frac(peak_hour, 1)
            [] f = "Trough Time" -> Frac(trough_hour, 1)
            [] f = "Anomaly Rate (Z-score)" -> Frac(Percent * CountTrue(out_z), Len(ts))
            [] f = "Anomaly Rate (ML)" -> Frac(Percent * CountTrue(out_ml), Len(ts))
            [] f = "Trend Reversals/day" -> Frac(cross_up, 1)]
    /\ pc' = "charts"
    /\ UNCHANGED << ts, start, window, z, out_z, out_ml, overlap, idx,
                    period_minutes, period_hours, peak_hour, trough_hour,
                    a_up, a_down, cross_up >>

Next ==
    \/ ZScoreStep
    \/ IsolationForestStep
    \/ OverlapStep
    \/ FFTStep
    \/ FFTRaise
    \/ HourlyStep
    \/ AroonStep
    \/ HeroMetrics
    \/ SidebarHighlights

Spec == Init /\ [][Next]_vars

\* ------------------------------------------------------------ properties
AfterZScore == {"iforest", "overlap", "fft", "hourly", "aroon", "hero", "sidebar", "charts", "failed"}
AfterOverlap == {"fft", "hourly", "aroon", "hero", "sidebar", "charts", "failed"}
AfterFFT == {"hourly", "aroon", "hero", "sidebar", "charts"}
AfterAroon == {"hero", "sidebar", "charts"}

Defined(s, i) == ~At(s, i).nan
FloatEq(a, b) == ~a.nan /\ ~b.nan /\ a.num * b.den = b.num * a.den
\* the trailing window of `window` samples ending at Python index i
WindowIndices(i) == (i - window + 1) .. i
HoldsMax(i, p) == \A q \in WindowIndices(i) : At(ts, q) <= At(ts, p)
HoldsMin(i, p) == \A q \in WindowIndices(i) : At(ts, p) <= At(ts, q)

\* C1: wherever compute_aroon defines a value, Aroon-Up and Aroon-Down lie
\* in the closed range [0, 100].
C1_AroonWithinRange ==
    pc \in AfterAroon =>
        \A i \in Indices(ts) :
            /\ Defined(a_up, i) =>
                  /\ FloatLe(Frac(0, 1), At(a_up, i))
                  /\ FloatLe(At(a_up, i), Frac(100, 1))
            /\ Defined(a_down, i) =>
                  /\ FloatLe(Frac(0, 1), At(a_down, i))
                  /\ FloatLe(At(a_down, i), Frac(100, 1))

\* a run whose indicator takes both its smallest and its largest value
C1_Witness ==
    /\ pc = "hero"
    /\ window = MaxWindow
    /\ \E i \in Indices(ts) : Defined(a_up, i) /\ At(a_up, i).num = 0
    /\ \E i \in Indices(ts) :
          Defined(a_down, i) /\ At(a_down, i).num = 100 * (window - 1)

\* C2 as stated: on a constant series longer than the window, Aroon-Up and
\* Aroon-Down are equal, both are 50 at every defined index, and the
\* crossover count is zero.
C2_ConstantGives50 ==
    (pc \in AfterAroon /\ IsConstant(ts) /\ Len(ts) > window) =>
        /\ \A i \in Indices(ts) :
              Defined(a_up, i) =>
                  /\ FloatEq(At(a_up, i), At(a_down, i))
                  /\ FloatEq(At(a_up, i), Frac(50, 1))
        /\ cross_up = 0

\* C2 amended: on a constant series longer than the window, Aroon-Up and
\* Aroon-Down are equal, both are 100*(W-1)/W at every defined index, and
\* the crossover count is zero.
C2_ConstantGivesEqual ==
    (pc \in AfterAroon /\ IsConstant(ts) /\ Len(ts) > window) =>
        /\ \A i \in Indices(ts) :
              /\ Defined(a_up, i) <=> Defined(a_down, i)
              /\ Defined(a_up, i) =>
                    /\ FloatEq(At(a_up, i), At(a_down, i))
                    /\ FloatEq(At(a_up, i), Frac(100 * (window - 1), window))
        /\ cross_up = 0

\* a constant series longer than a window of at least two samples, with the
\* indicator computed and defined somewhere
C2_Witness ==
    /\ pc = "hero"
    /\ IsConstant(ts)
    /\ window >= 2
    /\ Len(ts) > window
    /\ \E i \in Indices(ts) : Defined(a_up, i) /\ Defined(a_down, i)

\* C3: on a constant series the z-score stage completes and flags no
\* sample: every standardized value is the NaN of 0/0, no flag is set and
\* the anomaly count is 0.
C3_ConstantHasNoZAnomalies ==
    (pc \in AfterZScore /\ IsConstant(ts)) =>
        /\ Len(out_z) = Len(ts)
        /\ \A i \in Indices(ts) : At(z, i).nan /\ ~At(out_z, i)
        /\ CountTrue(out_z) = 0
        /\ "Z-score Anomalies" \in DOMAIN report =>
              report["Z-score Anomalies"] = Frac(0, 1)

\* a constant series of several samples whose z-scores have been computed
\* and displayed
C3_Witness ==
    /\ pc = "sidebar"
    /\ IsConstant(ts)
    /\ Len(ts) >= 2
    /\ At(z, 0).nan
    /\ report["Z-score Anomalies"] = Frac(0, 1)

\* C4: on a constant series the periodicity analysis reports no dominant
\* period: it fails, or it reports none; it never yields the reciprocal of
\* bin 1's frequency.
C4_ConstantHasNoPeriod ==
    (pc \in AfterFFT /\ IsConstant(ts)) =>
        /\ period_minutes.nan
        /\ period_hours.nan
        /\ ~FloatEq(period_minutes, Frac(Len(ts), 1))

\* C5: on a series shorter than the window the trend stage completes with
\* every Aroon-Up and Aroon-Down entry undefined and a crossover count of 0.
C5_ShortSeriesIsUndefined ==
    (pc \in AfterAroon /\ Len(ts) < window) =>
        /\ Len(a_up) = Len(ts)
        /\ Len(a_down) = Len(ts)
        /\ \A i \in Indices(ts) : ~Defined(a_up, i) /\ ~Defined(a_down, i)
        /\ cross_up = 0
        /\ "Trend Reversals/day" \in DOMAIN report =>
              report["Trend Reversals/day"] = Frac(0, 1)

\* a series of at least two samples, shorter than the window, run to the end
C5_Witness ==
    /\ pc = "charts"
    /\ Len(ts) >= 2
    /\ Len(ts) < window
    /\ Len(a_up) = Len(ts)
    /\ report["Trend Reversals/day"] = Frac(0, 1)

\* C6: when an analyzer fails, the results of every other analyzer are
\* still reported; only the failed analyzer's field is absent.
C6_FailureIsLocal ==
    pc = "failed" =>
        (HeroFields \cup SidebarFields) \ {"Daily Cycle (hrs)"} \subseteq DOMAIN report

\* C7: the overlap count is at most the z-score count and at most the
\* unsupervised count, and it counts exactly the samples flagged by both.
C7_OverlapIsIntersection ==
    pc \in AfterOverlap =>
        /\ overlap <= CountTrue(out_z)
        /\ overlap <= CountTrue(out_ml)
        /\ overlap = Cardinality({i \in Indices(ts) : At(out_z, i) /\ At(out_ml, i)})
        /\ "Shared Anomalies" \in DOMAIN report =>
              /\ report["Shared Anomalies"] = Frac(overlap, 1)
              /\ FloatLe(report["Shared Anomalies"], report["Z-score Anomalies"])
              /\ FloatLe(report["Shared Anomalies"], report["ML Anomalies"])

\* a run where the two detectors agree on one sample and disagree on others
C7_Witness ==
    /\ pc = "sidebar"
    /\ overlap = 1
    /\ CountTrue(out_z) = 1
    /\ CountTrue(out_ml) > 1
    /\ report["Shared Anomalies"] = Frac(1, 1)

\* C8: at every defined index, with p_max (p_min) the number of steps back
\* from the current sample to a maximum (minimum) of the trailing window,
\* Aroon-Up = 100*(W-1-p_max)/W and Aroon-Down = 100*(W-1-p_min)/W.
C8_StepsBackFormula ==
    pc \in AfterAroon =>
        \A i \in Indices(ts) :
            /\ Defined(a_up, i) =>
                  \E p \in WindowIndices(i) :
                      /\ HoldsMax(i, p)
                      /\ FloatEq(At(a_up, i), Frac(100 * (window - 1 - (i - p)), window))
            /\ Defined(a_down, i) =>
                  \E p \in WindowIndices(i) :
                      /\ HoldsMin(i, p)
                      /\ FloatEq(At(a_down, i), Frac(100 * (window - 1 - (i - p)), window))

\* C9: when several positions of the trailing window share the extreme
\* value, the indicator is computed from the most recent of them.
C9_TieBreakMostRecent ==
    pc \in AfterAroon =>
        \A i \in Indices(ts) :
            /\ Defined(a_up, i) =>
                  At(a_up, i) = AroonValue(window, ArgMaxLast(Slice(ts, i + 1 - window, i + 1)))
            /\ Defined(a_down, i) =>
                  At(a_down, i) = AroonValue(window, ArgMinLast(Slice(ts, i + 1 - window, i + 1)))

\* C10: for a series of length N >= W the indicator is defined at exactly
\* the indices W-1 <= i < N, and a crossover is counted at i iff
\* Up(i) > Down(i) and Up(i-1) <= Down(i-1) with both defined.
C10_DefinedFromFullWindow ==
    (pc \in AfterAroon /\ Len(ts) >= window) =>
        /\ \A i \in Indices(ts) :
              /\ Defined(a_up, i) <=> i \in AroonRangeFromFullWindow(Len(ts), window)
              /\ Defined(a_down, i) <=> i \in AroonRangeFromFullWindow(Len(ts), window)
        /\ cross_up = Cardinality({i \in Indices(ts) :
              /\ i >= 1
              /\ Defined(a_up, i) /\ Defined(a_down, i)
              /\ Defined(a_up, i - 1) /\ Defined(a_down, i - 1)
              /\ FloatGt(At(a_up, i), At(a_down, i))
              /\ FloatLe(At(a_up, i - 1), At(a_down, i - 1))})

====
